---- MODULE Spec2Model ----
(***************************************************************************)
(* ftag.mock: synthetic jet / track record arrays, class-conditional       *)
(* tagger scores, and the HDF5 container get_mock_file writes.             *)
(*                                                                         *)
(* Number representation.  Uniform draws of rng.random are k / Resolution  *)
(* and are stored as the integer k (so the float x is stored as            *)
(* x * Resolution).  Raw tagger scores are stored in units of 1/2 (means   *)
(* and scales of get_mock_scores are multiples of 1/2).  Probabilities are *)
(* stored in units of 10^-6.                                               *)
(***************************************************************************)
EXTENDS Integers, Sequences, FiniteSets, TLC

\* -------------------------------------------------------------- bounds
MaxJets == 2
MaxTracks == 2
MaxLabels == 3
Resolution == 4
MaxSigma == 2

\* ------------------------------------------------------------ helpers
Range(s) == {s[i] : i \in DOMAIN s}

RECURSIVE SumSeq(_)
SumSeq(s) == IF s = <<>> THEN 0 ELSE s[1] + SumSeq(Tail(s))

RECURSIVE Prod(_)
Prod(s) == IF s = <<>> THEN 1 ELSE s[1] * Prod(Tail(s))

RECURSIVE Flatten(_)
Flatten(ss) == IF ss = <<>> THEN <<>> ELSE ss[1] \o Flatten(Tail(ss))

Abs(x) == IF x < 0 THEN -x ELSE x

\* ------------------------------------------------------- source tables
JET_VARS ==
  << <<"pt", "f4">>, <<"eta", "f4">>, <<"abs_eta", "f4">>, <<"mass", "f4">>,
     <<"pt_btagJes", "f4">>, <<"eta_btagJes", "f4">>, <<"n_tracks", "i4">>,
     <<"HadronConeExclTruthLabelID", "i4">>,
     <<"HadronConeExclTruthLabelPt", "f4">>,
     <<"R10TruthLabel_R22v1", "i4">>, <<"n_truth_promptLepton", "i4">>,
     <<"flavour_label", "i4">> >>

TRACK_VARS ==
  << <<"d0", "f4">>, <<"z0SinTheta", "f4">>, <<"dphi", "f4">>,
     <<"deta", "f4">>, <<"qOverP", "f4">>,
     <<"IP3D_signed_d0_significance", "f4">>,
     <<"IP3D_signed_z0_significance", "f4">>,
     <<"phiUncertainty", "f4">>, <<"thetaUncertainty", "f4">>,
     <<"qOverPUncertainty", "f4">>, <<"numberOfPixelHits", "i4">>,
     <<"numberOfSCTHits", "i4">>,
     <<"numberOfInnermostPixelLayerHits", "i4">>,
     <<"numberOfNextToInnermostPixelLayerHits", "i4">>,
     <<"numberOfInnermostPixelLayerSharedHits", "i4">>,
     <<"numberOfInnermostPixelLayerSplitHits", "i4">>,
     <<"numberOfPixelSharedHits", "i4">>,
     <<"numberOfPixelSplitHits", "i4">>,
     <<"numberOfSCTSharedHits", "i4">>, <<"numberOfPixelHoles", "i4">>,
     <<"numberOfSCTHoles", "i4">> >>

\* means of get_mock_scores, in units of 1/2
means == << <<4, 0, 0, 0>>, <<0, 2, 0, 0>>, <<0, 0, 7, 0>>, <<0, 0, 0, 2>> >>

\* scales of get_mock_scores, in units of 1/2
scales == <<2, 5, 10, 2>>

\* label_dict, in insertion order: <<class name, label code>>
label_dict(is_xbb) ==
  IF ~is_xbb
  THEN << <<"u", 0>>, <<"c", 4>>, <<"b", 5>>, <<"tau", 15>> >>
  ELSE << <<"hbb", 11>>, <<"hcc", 12>>, <<"top", 1>>, <<"qcd", 10>> >>

\* ----------------------------------------------------- record arrays
Names(dtype) == [i \in DOMAIN dtype |-> dtype[i][1]]

FieldIndex(dtype, name) == CHOOSE i \in DOMAIN dtype : dtype[i][1] = name

NoArray == [shape |-> <<>>, dtype |-> <<>>, col |-> <<>>]

\* --------------------------------------------------------- generator
Seed == 42

\* one step of the bit generator
Advance(s) == (13 * s + 11) % 64

\* the generator's state word scaled into 0..n-1
Scaled(s, n) == (s * n) \div 64

\* 1, 2, 4, ..., 32 steps of the bit generator
Jump1 == [s \in 0..63 |-> Advance(s)]

Jump2 == [s \in 0..63 |-> Jump1[Jump1[s]]]

Jump4 == [s \in 0..63 |-> Jump2[Jump2[s]]]

Jump8 == [s \in 0..63 |-> Jump4[Jump4[s]]]

Jump16 == [s \in 0..63 |-> Jump8[Jump8[s]]]

Jump32 == [s \in 0..63 |-> Jump16[Jump16[s]]]

\* the state n steps after s; Advance has period 64, so the steps are taken
\* by the binary digits of n below 64
StateAfter(s, n) ==
  LET Hop(jump, k, t) == IF (n \div k) % 2 = 1 THEN jump[t] ELSE t
  IN Hop(Jump32, 32,
         Hop(Jump16, 16,
             Hop(Jump8, 8, Hop(Jump4, 4, Hop(Jump2, 2, Hop(Jump1, 1, s))))))

\* the states of the next n draws
Stream(s, n) == [i \in 1..n |-> StateAfter(s, i)]

\* a generator used in place of a fresh one: the state left by earlier draws
shared_rng(seed, ambient) == ambient

\* np.random.default_rng(seed): a new generator whose state is a function
\* of the seed alone; ambient is the state the previous generator was left in
default_rng(seed, ambient) == seed % 64

\* rng.random(n values): uniform k / Resolution, stored as k
rng_random(g, n) ==
  LET st == Stream(g, n)
  IN [g |-> StateAfter(g, n), v |-> [i \in 1..n |-> Scaled(st[i], Resolution)]]

\* rng.choice(list, size=n)
rng_choice(g, list, n) ==
  LET st == Stream(g, n)
  IN [g |-> StateAfter(g, n),
      v |-> [i \in 1..n |-> list[Scaled(st[i], Len(list)) + 1]]]

\* rng.integers(lo, hi, size=n): lo <= v < hi
rng_integers(g, lo, hi, n) ==
  LET st == Stream(g, n)
  IN [g |-> StateAfter(g, n),
      v |-> [i \in 1..n |-> lo + Scaled(st[i], hi - lo)]]

\* rng.normal(loc, scale, size=(count, nclass)): loc[j] + scale * z with
\* the standard deviate z an integer in -MaxSigma..MaxSigma; units of 1/2
rng_normal(g, loc, scale, count, nclass) ==
  LET st == Stream(g, count * nclass)
      z(i) == Scaled(st[i], 2 * MaxSigma + 1) - MaxSigma
  IN [g |-> StateAfter(g, count * nclass),
      v |-> [r \in 1..count |->
               [j \in 1..nclass |-> loc[j] + scale * z((r - 1) * nclass + j)]]]

\* ------------------------------------------------------------- casts
\* astype of a uniform draw k / Resolution: i4 truncates, f4 keeps it
AsType(k, type) == IF type = "i4" THEN k \div Resolution ELSE k

\* float64 -> float32 of a probability (units of 10^-6): the low digit is lost
Float32(p) == (p \div 10) * 10

\* unstructured_to_structured of a flat (cells x fields) block of uniform draws
u2s(flat, dtype, shape) ==
  LET cells == Prod(shape)
      F == Len(dtype)
  IN [shape |-> shape,
      dtype |-> dtype,
      col |-> [name \in Range(Names(dtype)) |->
                 LET j == FieldIndex(dtype, name)
                 IN [c \in 1..cells |->
                       AsType(flat[(c - 1) * F + j], dtype[j][2])]]]

\* ------------------------------------------------------------ softmax
\* np.exp(d) for d <= 0 in units of 1/2, result in units of 10^-3:
\* exp(0) = 1 exactly, and the result underflows to 0
RECURSIVE Exp(_)
Exp(d) ==
  IF d = 0 THEN 1000
  ELSE IF d < -16 THEN 0
  ELSE (Exp(d + 1) * 607) \div 1000

RowMax(row) == CHOOSE m \in Range(row) : \A y \in Range(row) : y <= m

\* e_x.sum() over every axis
AxisSumNone(e_x, r) == SumSeq(Flatten(e_x))

\* e_x.sum(axis=1, keepdims=True)[r]
AxisSum(e_x, r) == SumSeq(e_x[r])

\* e_x of softmax(x, axis=1)
softmax_e_x(x) ==
  [r \in DOMAIN x |-> [j \in DOMAIN x[r] |-> Exp(x[r][j] - RowMax(x[r]))]]

\* the divisor e_x.sum(axis=1, keepdims=True) of every row
softmax_divisor(x) ==
  LET e_x == softmax_e_x(x) IN [r \in DOMAIN x |-> AxisSum(e_x, r)]

\* softmax(x, axis=1); probabilities in units of 10^-6
softmax(x) ==
  LET e_x == softmax_e_x(x)
      d == softmax_divisor(x)
  IN [r \in DOMAIN x |->
        [j \in DOMAIN x[r] |-> (e_x[r][j] * 1000000) \div d[r]]]

\* ------------------------------------------------------- Schema Merger
\* a merge that lists the fields of the last input first
join_last_first(arrays) ==
  LET n == Len(arrays)
      rev == [i \in 1..n |-> arrays[n + 1 - i]]
      all == Flatten([i \in 1..n |-> Names(rev[i].dtype)])
      owner(name) == CHOOSE i \in 1..n : name \in Range(Names(rev[i].dtype))
  IN IF \E i, j \in 1..n : rev[i].shape # rev[j].shape
     THEN [err |-> "ShapeMismatchError", val |-> NoArray]
     ELSE IF Cardinality(Range(all)) # Len(all)
     THEN [err |-> "SchemaConflictError", val |-> NoArray]
     ELSE [err |-> "none",
           val |-> [shape |-> rev[1].shape,
                    dtype |-> Flatten([i \in 1..n |-> rev[i].dtype]),
                    col |-> [name \in Range(all) |->
                               rev[owner(name)].col[name]]]]

\* ftag.hdf5.join_structured_arrays
join_structured_arrays(arrays) ==
  LET all == Flatten([i \in DOMAIN arrays |-> Names(arrays[i].dtype)])
      owner(name) ==
        CHOOSE i \in DOMAIN arrays : name \in Range(Names(arrays[i].dtype))
  IN IF \E i, j \in DOMAIN arrays : arrays[i].shape # arrays[j].shape
     THEN [err |-> "ShapeMismatchError", val |-> NoArray]
     ELSE IF Cardinality(Range(all)) # Len(all)
     THEN [err |-> "SchemaConflictError", val |-> NoArray]
     ELSE [err |-> "none",
           val |-> [shape |-> arrays[1].shape,
                    dtype |-> Flatten([i \in DOMAIN arrays |-> arrays[i].dtype]),
                    col |-> [name \in Range(all) |->
                               arrays[owner(name)].col[name]]]]

\* ------------------------------------------------------ Score Synthesizer
\* np.unique(labels): the distinct values in ascending order
RECURSIVE SortedSeq(_)
SortedSeq(S) ==
  IF S = {} THEN <<>>
  ELSE LET m == CHOOSE x \in S : \A y \in S : x <= y
       IN <<m>> \o SortedSeq(S \ {m})

unique(labels) == SortedSeq(Range(labels))

\* position of row r among the rows carrying its label
Rank(labels, r) == Cardinality({q \in 1..r : labels[q] = labels[r]})

\* a scale chosen by the class of the label: its position in label_dict
ScaleByClass(i, label, ld) ==
  scales[CHOOSE k \in DOMAIN ld : ld[k][2] = label]

\* scales[i] of the loop "for i, (label, count) in enumerate(...)"; i from 0
ScaleOf(i, label, ld) == scales[i + 1]

\* one mapping shared by both taxonomies
label_mapping_shared(is_xbb) ==
  LET ld == label_dict(FALSE) \o label_dict(TRUE)
  IN [code \in {ld[i][2] : i \in DOMAIN ld} |->
        means[(((CHOOSE i \in DOMAIN ld : ld[i][2] = code) - 1) % 4) + 1]]

\* dict(zip(label_dict.values(), means))
label_mapping(is_xbb) ==
  LET ld == label_dict(is_xbb)
  IN [code \in {ld[i][2] : i \in DOMAIN ld} |->
        means[CHOOSE i \in DOMAIN ld : ld[i][2] = code]]

\* the loop of get_mock_scores from iteration i on; normal_calls collects
\* the <<label, loc, scale>> each rng.normal call was given
RECURSIVE FillScores(_, _, _, _, _, _)
FillScores(i, labels, is_xbb, g, scores, normal_calls) ==
  LET uniq == unique(labels)
      ld == label_dict(is_xbb)
      mapping == label_mapping(is_xbb)
  IN IF i >= Len(uniq)
     THEN [err |-> "none", g |-> g, scores |-> scores,
           normal_calls |-> normal_calls]
     ELSE
       LET label == uniq[i + 1]
           count == Cardinality({r \in DOMAIN labels : labels[r] = label})
       IN IF label \notin DOMAIN mapping
          THEN [err |-> "UnknownLabelError", g |-> g, scores |-> scores,
                normal_calls |-> normal_calls]
          ELSE IF i >= Len(scales)
          THEN [err |-> "IndexError", g |-> g, scores |-> scores,
                normal_calls |-> normal_calls]
          ELSE
            LET scale == ScaleOf(i, label, ld)
                d == rng_normal(g, mapping[label], scale, count, Len(ld))
            IN FillScores(i + 1, labels, is_xbb, d.g,
                          [r \in DOMAIN labels |->
                             IF labels[r] = label
                             THEN d.v[Rank(labels, r)]
                             ELSE scores[r]],
                          Append(normal_calls,
                                 <<label, mapping[label], scale>>))

\* u2s(scores, dtype=[(name, "f4") for name in cols])
u2s_scores(probs, cols) ==
  [shape |-> <<Len(probs)>>,
   dtype |-> cols,
   col |-> [c \in Range(Names(cols)) |->
              LET j == FieldIndex(cols, c)
              IN [r \in DOMAIN probs |-> Float32(probs[r][j])]]]

\* get_mock_scores(labels, is_xbb) entered with the generator state ambient
get_mock_scores(labels, is_xbb, ambient) ==
  LET ld == label_dict(is_xbb)
      nclass == Len(ld)
      zeros == [r \in DOMAIN labels |-> [j \in 1..nclass |-> 0]]
      name == IF is_xbb THEN "MockXbbTagger" ELSE "MockTagger"
      cols == [j \in 1..nclass |-> <<name \o "_p" \o ld[j][1], "f4">>]
      \* lines 81-84, once the loop has filled scores
      Finish(filled) ==
        IF filled.err # "none"
        THEN [err |-> filled.err, val |-> NoArray, g |-> filled.g,
              normal_calls |-> filled.normal_calls, divisor |-> <<>>]
        ELSE [err |-> "none",
              val |-> u2s_scores(softmax(filled.scores), cols),
              g |-> filled.g,
              normal_calls |-> filled.normal_calls,
              divisor |-> softmax_divisor(filled.scores)]
  IN Finish(FillScores(0, labels, is_xbb, default_rng(Seed, ambient),
                       zeros, <<>>))

\* ------------------------------------------------------ Jet Feature Builder
FlavourCodes == <<0, 4, 5>>

HadronCodes == <<0, 4, 5, 15>>

\* label codes of another taxonomy handed to the R10 column
R10CodesSwapped == <<0, 4, 5, 15>>

R10Codes == <<1, 10, 11, 12>>

\* the result of a builder: the array, the generator state left behind and
\* what it handed to get_mock_scores and to join_structured_arrays
Built(err, val, g, labels, normal_calls, divisor, join_in) ==
  [err |-> err, val |-> val, g |-> g, labels |-> labels,
   normal_calls |-> normal_calls, divisor |-> divisor, join_in |-> join_in]

\* the two score blocks handed over in the other order
JetJoinSwapped(jets, scores, xbb_scores) == <<jets, xbb_scores, scores>>

\* the list [jets, scores, xbb_scores] handed to join_structured_arrays
JetJoinList(jets, scores, xbb_scores) == <<jets, scores, xbb_scores>>

\* mock_jets(num_jets) entered with the generator state ambient
mock_jets(num_jets, ambient) ==
  LET rows == 1..num_jets
      \* line 104
      Join(jets, scores, xbb_scores) ==
        LET join_in == JetJoinList(jets, scores.val, xbb_scores.val)
            labels == <<jets.col["HadronConeExclTruthLabelID"],
                        jets.col["R10TruthLabel_R22v1"]>>
            Return(joined) ==
              Built(joined.err, joined.val, xbb_scores.g, labels,
                    <<scores.normal_calls, xbb_scores.normal_calls>>,
                    <<scores.divisor, xbb_scores.divisor>>, join_in)
        IN IF xbb_scores.err # "none"
           THEN Built(xbb_scores.err, NoArray, xbb_scores.g, labels,
                      <<scores.normal_calls, xbb_scores.normal_calls>>,
                      <<>>, <<>>)
           ELSE Return(join_structured_arrays(join_in))
      \* line 103
      XbbScores(jets, scores) ==
        IF scores.err # "none"
        THEN Built(scores.err, NoArray, scores.g,
                   <<jets.col["HadronConeExclTruthLabelID"]>>,
                   <<scores.normal_calls>>, <<>>, <<>>)
        ELSE Join(jets, scores,
                  get_mock_scores(jets.col["R10TruthLabel_R22v1"], TRUE,
                                  scores.g))
      \* line 102
      Scores(jets, g) ==
        XbbScores(jets,
                  get_mock_scores(jets.col["HadronConeExclTruthLabelID"],
                                  FALSE, g))
      \* lines 92-101, the draws made
      Fill(base, d2, d3, d4) ==
        LET eta == [r \in rows |-> (base.col["eta"][r] * 6) - 3 * Resolution]
        IN Scores([base EXCEPT
                     !.col["flavour_label"] = d2.v,
                     !.col["pt"] = [r \in rows |-> base.col["pt"][r] * 400000],
                     !.col["mass"] = [r \in rows |-> base.col["mass"][r] * 50000],
                     !.col["eta"] = eta,
                     !.col["abs_eta"] = [r \in rows |-> Abs(eta[r])],
                     !.col["n_truth_promptLepton"] = [r \in rows |-> 0],
                     !.col["HadronConeExclTruthLabelID"] = d3.v,
                     !.col["R10TruthLabel_R22v1"] = d4.v],
                  d4.g)
      \* line 101
      DrawR10(base, d2, d3) ==
        Fill(base, d2, d3, rng_choice(d3.g, R10Codes, num_jets))
      \* line 100
      DrawHadron(base, d2) ==
        DrawR10(base, d2, rng_choice(d2.g, HadronCodes, num_jets))
      \* lines 91-92
      DrawFlavour(d1) ==
        DrawHadron(u2s(d1.v, JET_VARS, <<num_jets>>),
                   rng_choice(d1.g, FlavourCodes, num_jets))
  IN IF num_jets < 0
     THEN Built("ValueError", NoArray, default_rng(Seed, ambient),
                <<>>, <<>>, <<>>, <<>>)
     ELSE DrawFlavour(rng_random(default_rng(Seed, ambient),
                                 num_jets * Len(JET_VARS)))

\* ---------------------------------------------------- Track Feature Builder
\* valid.astype(bool).view(dtype=[("valid", bool)]): same shape, one field
ViewAsValid(values, shape) ==
  [shape |-> shape, dtype |-> << <<"valid", "bool">> >>,
   col |-> [name \in {"valid"} |-> values]]

\* the validity mask handed over first
TrackJoinSwapped(tracks, valid) == <<valid, tracks>>

\* the list [tracks, valid] handed to join_structured_arrays
TrackJoinList(tracks, valid) == <<tracks, valid>>

\* mock_tracks(num_jets, num_tracks) entered with the generator state ambient
mock_tracks(num_jets, num_tracks, ambient) ==
  LET shape == <<num_jets, num_tracks>>
      cells == num_jets * num_tracks
      \* lines 111-119, the draws made
      Fill(base, d2, d3, d4) ==
        LET join_in ==
              TrackJoinList(
                [base EXCEPT
                   !.col["d0"] = [c \in 1..cells |-> base.col["d0"][c] * 5],
                   !.col["numberOfPixelSharedHits"] = d2.v,
                   !.col["numberOfSCTSharedHits"] = d3.v],
                ViewAsValid(d4.v, shape))
            Return(arrays, joined) ==
              Built(joined.err, joined.val, d4.g, <<>>, <<>>, <<>>, arrays)
            Join(arrays) == Return(arrays, join_structured_arrays(arrays))
        IN Join(join_in)
      \* line 117
      DrawValid(base, d2, d3) ==
        Fill(base, d2, d3, rng_choice(d3.g, <<TRUE, FALSE>>, cells))
      \* line 115
      DrawSCT(base, d2) == DrawValid(base, d2, rng_integers(d2.g, 0, 3, cells))
      \* lines 110, 114
      DrawPixel(d1) ==
        DrawSCT(u2s(d1.v, TRACK_VARS, shape), rng_integers(d1.g, 0, 3, cells))
  IN IF num_jets < 0 \/ num_tracks < 0
     THEN Built("ValueError", NoArray, default_rng(Seed, ambient),
                <<>>, <<>>, <<>>, <<>>)
     ELSE DrawPixel(rng_random(default_rng(Seed, ambient),
                               cells * Len(TRACK_VARS)))

\* -------------------------------------------------------- HDF5 container
NoFile == [exists |-> FALSE, attrs |-> {}, datasets |-> <<>>]

\* h5py.File(fname, "w"): create the file, truncating an existing one
h5py_File_w(old) == [exists |-> TRUE, attrs |-> {}, datasets |-> <<>>]

DatasetNames(f) == {f.datasets[i].name : i \in DOMAIN f.datasets}

Dataset(f, name) ==
  f.datasets[CHOOSE i \in DOMAIN f.datasets : f.datasets[i].name = name]

\* f.create_dataset(name, data=data); h5py refuses a name already in use
create_dataset(f, name, data) ==
  IF name \in DatasetNames(f)
  THEN [err |-> "ValueError", f |-> f]
  ELSE [err |-> "none",
        f |-> [f EXCEPT !.datasets =
                 Append(@, [name |-> name, data |-> data, attrs |-> {}])]]

\* a test that lets the empty name through ("if tracks_name is not None:")
TracksRequestedAlways(tracks_name) == TRUE

\* the truthiness test "if tracks_name:"
TracksRequested(tracks_name) == tracks_name # ""

\* get_mock_file(num_jets, fname, tracks_name, num_tracks) entered with the
\* generator state ambient and the container old stored under fname
get_mock_file(num_jets, tracks_name, num_tracks, ambient, old) ==
  LET \* line 143
      WriteTracks(f1, tracks) ==
        LET Return(c2) == [err |-> c2.err, f |-> c2.f, g |-> tracks.g]
        IN IF tracks.err # "none"
           THEN [err |-> tracks.err, f |-> f1, g |-> tracks.g]
           ELSE Return(create_dataset(f1, tracks_name, tracks.val))
      \* lines 137-142
      Tracks(jets, f1) ==
        IF ~TracksRequested(tracks_name)
        THEN [err |-> "none", f |-> f1, g |-> jets.g]
        ELSE WriteTracks(f1, mock_tracks(num_jets, num_tracks, jets.g))
      Attrs(jets, c1) ==
        IF c1.err # "none"
        THEN [err |-> c1.err, f |-> c1.f, g |-> jets.g]
        ELSE Tracks(jets,
                    [c1.f EXCEPT
                       !.attrs = @ \cup {<<"test", "test">>},
                       !.datasets[1].attrs = @ \cup {<<"test", "test">>}])
      \* lines 135-136
      WriteJets(jets) ==
        IF jets.err # "none"
        THEN [err |-> jets.err, f |-> old, g |-> jets.g]
        ELSE Attrs(jets, create_dataset(h5py_File_w(old), "jets", jets.val))
  IN WriteJets(mock_jets(num_jets, ambient))

\* ---------------------------------------------------------- requests
\* a call of one of the module's functions with its arguments
Request(op, labels, is_xbb, num_jets, num_tracks, tracks_name, arrays) ==
  [op |-> op, labels |-> labels, is_xbb |-> is_xbb, num_jets |-> num_jets,
   num_tracks |-> num_tracks, tracks_name |-> tracks_name,
   arrays |-> arrays]

NoRequest == Request("none", <<>>, FALSE, 0, 0, "", <<>>)

\* every label code of the two taxonomies
LabelCodes == {0, 4, 5, 15, 1, 10, 11, 12}

\* label arrays of at most n rows
LabelArrays(n) == UNION {[1..k -> LabelCodes] : k \in 0..n}

JetCounts == -1..MaxJets

TrackCounts == -1..MaxTracks

TrackNames == {"", "tracks", "jets"}

ScoreRequests ==
  {Request("get_mock_scores", l, x, 0, 0, "", <<>>) :
     l \in LabelArrays(MaxLabels), x \in BOOLEAN}

JetRequests ==
  {Request("mock_jets", <<>>, FALSE, n, 0, "", <<>>) : n \in JetCounts}

TrackRequests ==
  {Request("mock_tracks", <<>>, FALSE, n, t, "", <<>>) :
     n \in JetCounts, t \in TrackCounts}

FileRequests ==
  {Request("get_mock_file", <<>>, FALSE, n, t, tn, <<>>) :
     n \in {-1, 0, MaxJets}, t \in TrackCounts, tn \in TrackNames}

\* small record arrays for direct calls of join_structured_arrays: the
\* value of field name in cell c is told apart by name and cell
FieldCode(name) ==
  CASE name = "a" -> 1 [] name = "b" -> 2 [] name = "c" -> 3
    [] name = "d" -> 4 [] OTHER -> 5

PoolArray(shape, names) ==
  [shape |-> shape,
   dtype |-> [i \in DOMAIN names |-> <<names[i], "i4">>],
   col |-> [name \in Range(names) |->
              [c \in 1..Prod(shape) |-> 10 * c + FieldCode(name)]]]

PoolShapes == {<<n>> : n \in 1..MaxJets} \cup {<<1, MaxTracks>>}

PoolNames == {<<"a">>, <<"b", "c">>, <<"d", "a">>, <<"e">>}

Pool == {PoolArray(sh, nm) : sh \in PoolShapes, nm \in PoolNames}

\* the arrays tried in third place
PoolLast == {PoolArray(sh, <<"e">>) : sh \in PoolShapes}

JoinRequests ==
  {Request("join_structured_arrays", <<>>, FALSE, 0, 0, "", <<a, b>>) :
     a \in Pool, b \in Pool}
  \cup {Request("join_structured_arrays", <<>>, FALSE, 0, 0, "", <<a, b, c>>) :
          a \in Pool, b \in Pool, c \in PoolLast}

\* the calls of one generation function after another
GenRequests ==
  {Request("get_mock_scores", l, x, 0, 0, "", <<>>) :
     l \in {<<>>, <<5>>, <<0, 4, 5>>, <<5, 0>>, <<11>>, <<12, 1>>},
     x \in BOOLEAN}
  \cup {Request("mock_jets", <<>>, FALSE, n, 0, "", <<>>) : n \in 0..MaxJets}
  \cup {Request("mock_tracks", <<>>, FALSE, n, t, "", <<>>) :
          n \in 0..MaxJets, t \in {0, MaxTracks}}

\* -------------------------------------------------------------- state
VARIABLES
  last,   \* the latest call: its request, its outcome and what it handed on
  ref,    \* an earlier generation call, remembered with its outcome
  rng,    \* the state the most recently built generator was left in
  files   \* the container stored under each path

vars == <<last, ref, rng, files>>

Paths == {"a.h5"}

Outcome(r, err, val, f, labels, normal_calls, divisor, join_in, before) ==
  [req |-> r, err |-> err, val |-> val, f |-> f, labels |-> labels,
   normal_calls |-> normal_calls, divisor |-> divisor, join_in |-> join_in,
   before |-> before]

\* a request not yet carried out
Pending(r) == Outcome(r, "pending", NoArray, NoFile, <<>>, <<>>, <<>>, <<>>, {})

NoRef == [req |-> NoRequest, err |-> "none", val |-> NoArray, between |-> FALSE]

\* the remembered call: replaced by this one when keep, else marked once a
\* call with other arguments has run after it
Remember(keep, r, err, val) ==
  IF keep
  THEN [req |-> r, err |-> err, val |-> val, between |-> FALSE]
  ELSE [ref EXCEPT !.between = @ \/ (ref.req.op # "none" /\ ref.req # r)]

\* ------------------------------------------------------------ actions
GetMockScores(r, keep) ==
  LET Return(res) ==
        /\ last' = Outcome(r, res.err, res.val, NoFile, <<r.labels>>,
                           <<res.normal_calls>>, <<res.divisor>>, <<>>, {})
        /\ rng' = res.g
        /\ ref' = Remember(keep, r, res.err, res.val)
  IN /\ r.op = "get_mock_scores"
     /\ Return(get_mock_scores(r.labels, r.is_xbb, rng))
     /\ UNCHANGED files

MockJets(r, keep) ==
  LET Return(res) ==
        /\ last' = Outcome(r, res.err, res.val, NoFile, res.labels,
                           res.normal_calls, res.divisor, res.join_in, {})
        /\ rng' = res.g
        /\ ref' = Remember(keep, r, res.err, res.val)
  IN /\ r.op = "mock_jets"
     /\ Return(mock_jets(r.num_jets, rng))
     /\ UNCHANGED files

MockTracks(r, keep) ==
  LET Return(res) ==
        /\ last' = Outcome(r, res.err, res.val, NoFile, res.labels,
                           res.normal_calls, res.divisor, res.join_in, {})
        /\ rng' = res.g
        /\ ref' = Remember(keep, r, res.err, res.val)
  IN /\ r.op = "mock_tracks"
     /\ Return(mock_tracks(r.num_jets, r.num_tracks, rng))
     /\ UNCHANGED files

GetMockFile(r, fname) ==
  LET Return(res) ==
        /\ last' = Outcome(r, res.err, NoArray, res.f, <<>>, <<>>, <<>>,
                           <<>>, DatasetNames(files[fname]))
        /\ rng' = res.g
        /\ files' = [files EXCEPT ![fname] = res.f]
  IN /\ r.op = "get_mock_file"
     /\ Return(get_mock_file(r.num_jets, r.tracks_name, r.num_tracks, rng,
                             files[fname]))
     /\ UNCHANGED ref

JoinStructuredArrays(r) ==
  LET Return(res) ==
        last' = Outcome(r, res.err, res.val, NoFile, <<>>, <<>>, <<>>,
                        r.arrays, {})
  IN /\ r.op = "join_structured_arrays"
     /\ Return(join_structured_arrays(r.arrays))
     /\ UNCHANGED <<ref, rng, files>>

\* ------------------------------------------------------ specifications
\* one request, drawn at the start and carried out (any number of times)
Init ==
  /\ last \in {Pending(r) : r \in ScoreRequests \cup JetRequests
                 \cup TrackRequests \cup FileRequests \cup JoinRequests}
  /\ ref = NoRef
  /\ rng = 0
  /\ files = [p \in Paths |-> NoFile]

Next ==
  \/ GetMockScores(last.req, FALSE)
  \/ MockJets(last.req, FALSE)
  \/ MockTracks(last.req, FALSE)
  \/ \E p \in Paths : GetMockFile(last.req, p)
  \/ JoinStructuredArrays(last.req)

Spec == Init /\ [][Next]_vars

\* the generation functions called one after another in any order
InitSeq ==
  /\ last = Pending(NoRequest)
  /\ ref = NoRef
  /\ rng = 0
  /\ files = [p \in Paths |-> NoFile]

NextGen ==
  \E r \in GenRequests, keep \in BOOLEAN :
    \/ GetMockScores(r, keep)
    \/ MockJets(r, keep)
    \/ MockTracks(r, keep)

SpecGen == InitSeq /\ [][NextGen]_vars

\* get_mock_file called again and again on the same path
NextFile == \E r \in FileRequests, p \in Paths : GetMockFile(r, p)

SpecFile == InitSeq /\ [][NextFile]_vars

\* ---------------------------------------------------------- properties
\* C1: a generation call with the arguments of an earlier generation call
\* returns what the earlier call returned, whatever calls ran before or
\* between the two.
RepeatedCallsAgree ==
  (ref.req.op # "none" /\ last.req = ref.req)
    => (last.err = ref.err /\ last.val = ref.val)

\* C1 witness: mock_jets(MaxJets) repeated after calls with other arguments
RepeatedAfterOtherCalls ==
  /\ ref.req.op = "mock_jets"
  /\ ref.req.num_jets = MaxJets
  /\ ref.between
  /\ last.req = ref.req
  /\ last.err = "none"

\* C2: when every label is a key of the active mapping, get_mock_scores
\* returns; every returned value is non-negative, the 4 values of every row
\* sum to 1 up to the rounding of the 4 divisions and the 4 float32 casts,
\* and no row's softmax divisor is below exp(0) = 1.
RowsAreDistributions ==
  (/\ last.req.op = "get_mock_scores"
   /\ last.err # "pending"
   /\ Range(last.req.labels) \subseteq
        (IF last.req.is_xbb THEN {11, 12, 1, 10} ELSE {0, 4, 5, 15}))
    => /\ last.err = "none"
       /\ last.val.shape = <<Len(last.req.labels)>>
       /\ Len(last.val.dtype) = 4
       /\ \A r \in DOMAIN last.req.labels :
            /\ last.divisor[1][r] >= 1000
            /\ \A j \in 1..4 : last.val.col[last.val.dtype[j][1]][r] >= 0
            /\ Abs(SumSeq([j \in 1..4 |->
                             last.val.col[last.val.dtype[j][1]][r]])
                   - 1000000) <= 44

\* C2 witness: MaxLabels rows of the alternate taxonomy scored, one of them
\* with a class probability that underflowed to 0
DistributionsReturned ==
  /\ last.req.op = "get_mock_scores"
  /\ last.req.is_xbb
  /\ Len(last.req.labels) = MaxLabels
  /\ last.err = "none"
  /\ \E r \in DOMAIN last.req.labels, j \in 1..4 :
       last.val.col[last.val.dtype[j][1]][r] = 0

\* C3: arrays of one shape with pairwise-distinct field names are merged
\* into an array of that shape whose schema is the inputs' schemas one after
\* another in input order (so as many fields as the inputs have together),
\* every field holding the values it held in its input.
MergeConcatenates ==
  LET arrays == last.join_in
      offset(i) == SumSeq([k \in 1..(i - 1) |-> Len(arrays[k].dtype)])
  IN (/\ last.req.op \in {"join_structured_arrays", "mock_jets", "mock_tracks"}
      /\ Len(arrays) >= 1
      /\ \A i, j \in DOMAIN arrays : arrays[i].shape = arrays[j].shape
      /\ \A i, j \in DOMAIN arrays :
           \A a \in DOMAIN arrays[i].dtype, b \in DOMAIN arrays[j].dtype :
             (<<i, a>> # <<j, b>>)
               => arrays[i].dtype[a][1] # arrays[j].dtype[b][1])
       => /\ last.err = "none"
          /\ \A i \in DOMAIN arrays : last.val.shape = arrays[i].shape
          /\ Len(last.val.dtype) = offset(Len(arrays) + 1)
          /\ \A i \in DOMAIN arrays : \A a \in DOMAIN arrays[i].dtype :
               /\ last.val.dtype[offset(i) + a] = arrays[i].dtype[a]
               /\ last.val.col[arrays[i].dtype[a][1]]
                    = arrays[i].col[arrays[i].dtype[a][1]]

\* C3 witness: three arrays of shape (1, MaxTracks), four fields together,
\* merged by a direct call
ThreeArraysMerged ==
  /\ last.req.op = "join_structured_arrays"
  /\ Len(last.req.arrays) = 3
  /\ last.err = "none"
  /\ last.val.shape = <<1, MaxTracks>>
  /\ Len(last.val.dtype) = 4

\* C4: get_mock_scores given a label that is not a key of the active mapping
\* ({0,4,5,15}, or {11,12,1,10} with is_xbb) fails with UnknownLabelError and
\* returns no array.
UnknownLabelRaises ==
  (/\ last.req.op = "get_mock_scores"
   /\ last.err # "pending"
   /\ \E i \in DOMAIN last.req.labels :
        last.req.labels[i] \notin
          (IF last.req.is_xbb THEN {11, 12, 1, 10} ELSE {0, 4, 5, 15}))
    => (last.err = "UnknownLabelError" /\ last.val = NoArray)

\* C4 witness: a code of the alternate taxonomy met after a known label
UnknownLabelRaised ==
  /\ last.req.op = "get_mock_scores"
  /\ ~last.req.is_xbb
  /\ last.req.labels = <<5, 11, 0>>
  /\ last.err = "UnknownLabelError"

\* C5: mock_jets(N) returns N rows with exactly these 20 fields in this
\* order: JET_VARS as declared, the 4 MockTagger scores, the 4 MockXbbTagger
\* scores.
JetSchema ==
  (/\ last.req.op = "mock_jets"
   /\ last.err # "pending"
   /\ last.req.num_jets >= 0)
    => /\ last.err = "none"
       /\ last.val.shape = <<last.req.num_jets>>
       /\ Names(last.val.dtype) =
            <<"pt", "eta", "abs_eta", "mass", "pt_btagJes", "eta_btagJes",
              "n_tracks", "HadronConeExclTruthLabelID",
              "HadronConeExclTruthLabelPt", "R10TruthLabel_R22v1",
              "n_truth_promptLepton", "flavour_label",
              "MockTagger_pu", "MockTagger_pc", "MockTagger_pb",
              "MockTagger_ptau",
              "MockXbbTagger_phbb", "MockXbbTagger_phcc",
              "MockXbbTagger_ptop", "MockXbbTagger_pqcd">>
       /\ \A i \in 1..20 :
            Len(last.val.col[last.val.dtype[i][1]]) = last.req.num_jets

\* C5 witness: MaxJets jets built
JetsBuilt ==
  /\ last.req.op = "mock_jets"
  /\ last.req.num_jets = MaxJets
  /\ last.err = "none"
  /\ Len(last.val.dtype) = 20

\* C6 as stated: mock_tracks(N, T) returns shape (N, T) and 20 + 1 = 21
\* fields, "valid" last.
TrackSchemaOf21 ==
  (/\ last.req.op = "mock_tracks"
   /\ last.err # "pending"
   /\ last.req.num_jets >= 0
   /\ last.req.num_tracks >= 0)
    => /\ last.err = "none"
       /\ last.val.shape = <<last.req.num_jets, last.req.num_tracks>>
       /\ Len(last.val.dtype) = 20 + 1
       /\ last.val.dtype[Len(last.val.dtype)][1] = "valid"

\* C6 as amended: mock_tracks(N, T) returns shape (N, T) and 21 + 1 = 22
\* fields, the 21 fields of TRACK_VARS followed by "valid".
TrackSchemaOf22 ==
  (/\ last.req.op = "mock_tracks"
   /\ last.err # "pending"
   /\ last.req.num_jets >= 0
   /\ last.req.num_tracks >= 0)
    => /\ last.err = "none"
       /\ last.val.shape = <<last.req.num_jets, last.req.num_tracks>>
       /\ Len(last.val.dtype) = 21 + 1
       /\ last.val.dtype[22][1] = "valid"
       /\ \A i \in 1..21 : last.val.dtype[i][1] # "valid"
       /\ \A i \in 1..22 :
            Len(last.val.col[last.val.dtype[i][1]])
              = last.req.num_jets * last.req.num_tracks

\* C6 witness: MaxJets jets of MaxTracks tracks built
TracksBuilt ==
  /\ last.req.op = "mock_tracks"
  /\ last.req.num_jets = MaxJets
  /\ last.req.num_tracks = MaxTracks
  /\ last.err = "none"
  /\ last.val.dtype[Len(last.val.dtype)][1] = "valid"

\* C7: once get_mock_file(N, fname, tracks_name, T) has returned, the
\* container holds "jets" with the shape and field set of mock_jets(N); with
\* a non-empty tracks_name it holds exactly one more dataset, named
\* tracks_name, with the shape (N, T) and field set of mock_tracks(N, T);
\* with an empty tracks_name "jets" is its only dataset and the generator is
\* left where mock_jets left it (no track array was drawn).
FileHoldsWhatWasAsked ==
  LET r == last.req
      f == last.f
      SameAs(held, built) ==
        /\ built.err = "none"
        /\ held.shape = built.val.shape
        /\ Range(Names(held.dtype)) = Range(Names(built.val.dtype))
      JetsAre(built) ==
        /\ SameAs(Dataset(f, "jets").data, built)
        /\ Dataset(f, "jets").data.shape = <<r.num_jets>>
        /\ (r.tracks_name = "") => (rng = built.g)
      TracksAre(built) ==
        /\ SameAs(Dataset(f, r.tracks_name).data, built)
        /\ Dataset(f, r.tracks_name).data.shape = <<r.num_jets, r.num_tracks>>
  IN (r.op = "get_mock_file" /\ last.err = "none")
       => /\ f.exists
          /\ \A p \in Paths : files[p].exists => files[p] = f
          /\ "jets" \in DatasetNames(f)
          /\ JetsAre(mock_jets(r.num_jets, 0))
          /\ (r.tracks_name # "") <=> (DatasetNames(f) # {"jets"})
          /\ (r.tracks_name # "")
               => /\ DatasetNames(f) = {"jets", r.tracks_name}
                  /\ Len(f.datasets) = 2
                  /\ TracksAre(mock_tracks(r.num_jets, r.num_tracks, 0))
          /\ (r.tracks_name = "")
               => (DatasetNames(f) = {"jets"} /\ Len(f.datasets) = 1)

\* C7 witness: a call with an empty tracks_name has returned on a path whose
\* container held a "tracks" dataset before the call
JetsOnlyOverTracks ==
  /\ last.req.op = "get_mock_file"
  /\ last.req.tracks_name = ""
  /\ last.req.num_jets = MaxJets
  /\ last.err = "none"
  /\ "tracks" \in last.before

\* C9: the i-th call of rng.normal in get_mock_scores is for the i-th
\* smallest distinct label observed, with that label's mean vector and with
\* scales[i] of [1, 2.5, 5, 1] (here in units of 1/2): label 5 is drawn with
\* scale 5 when 0, 4 and 5 are observed and with scale 1 when only 5 is,
\* with the mean [0, 0, 3.5, 0] both times.
ScaleByObservedOrder ==
  LET r == last.req
      calls == last.normal_calls[1]
      mean == IF r.is_xbb
              THEN [l \in {11, 12, 1, 10} |->
                      CASE l = 11 -> <<4, 0, 0, 0>> [] l = 12 -> <<0, 2, 0, 0>>
                        [] l = 1 -> <<0, 0, 7, 0>> [] l = 10 -> <<0, 0, 0, 2>>]
              ELSE [l \in {0, 4, 5, 15} |->
                      CASE l = 0 -> <<4, 0, 0, 0>> [] l = 4 -> <<0, 2, 0, 0>>
                        [] l = 5 -> <<0, 0, 7, 0>> [] l = 15 -> <<0, 0, 0, 2>>]
  IN (r.op = "get_mock_scores" /\ last.err = "none")
       => /\ Len(calls) = Cardinality(Range(r.labels))
          /\ \A i \in DOMAIN calls :
               /\ calls[i][1] \in Range(r.labels)
               /\ Cardinality({l \in Range(r.labels) : l < calls[i][1]}) = i - 1
               /\ calls[i][2] = mean[calls[i][1]]
               /\ calls[i][3] = <<2, 5, 10, 2>>[i]
          /\ (~r.is_xbb /\ Range(r.labels) = {0, 4, 5})
               => calls[3] = <<5, <<0, 0, 7, 0>>, 10>>
          /\ (~r.is_xbb /\ Range(r.labels) = {5})
               => calls[1] = <<5, <<0, 0, 7, 0>>, 2>>

\* C9 witness: label 5 observed alone and drawn with scale 1
LoneLabelGetsFirstScale ==
  /\ last.req.op = "get_mock_scores"
  /\ ~last.req.is_xbb
  /\ last.req.labels = <<5, 5>>
  /\ last.err = "none"
  /\ last.normal_calls[1] = << <<5, <<0, 0, 7, 0>>, 2>> >>

\* C10: for N >= 0 and T >= 0 mock_jets(N) and mock_tracks(N, T) return:
\* the labels mock_jets hands to get_mock_scores are keys of the mapping
\* active in that call, at most 4 distinct labels (so at most 4 scales) are
\* used per call, and the arrays handed to join_structured_arrays have one
\* shape and pairwise-distinct field names.
BuildersReturn ==
  LET r == last.req
      arrays == last.join_in
  IN (/\ r.op \in {"mock_jets", "mock_tracks"}
      /\ last.err # "pending"
      /\ r.num_jets >= 0
      /\ r.num_tracks >= 0)
       => /\ last.err = "none"
          /\ (r.op = "mock_jets")
               => /\ Len(last.labels) = 2
                  /\ Len(last.labels[1]) = r.num_jets
                  /\ Len(last.labels[2]) = r.num_jets
                  /\ Range(last.labels[1]) \subseteq {0, 4, 5, 15}
                  /\ Range(last.labels[2]) \subseteq {1, 10, 11, 12}
                  /\ \A k \in 1..2 :
                       /\ Cardinality(Range(last.labels[k])) <= 4
                       /\ Len(last.normal_calls[k]) <= 4
          /\ Len(arrays) = (IF r.op = "mock_jets" THEN 3 ELSE 2)
          /\ \A i, j \in DOMAIN arrays : arrays[i].shape = arrays[j].shape
          /\ \A i, j \in DOMAIN arrays :
               \A a \in DOMAIN arrays[i].dtype, b \in DOMAIN arrays[j].dtype :
                 (<<i, a>> # <<j, b>>)
                   => arrays[i].dtype[a][1] # arrays[j].dtype[b][1]

\* C10 witness: MaxJets jets built, their labels scored in both taxonomies
BothTaxonomiesScored ==
  /\ last.req.op = "mock_jets"
  /\ last.req.num_jets = MaxJets
  /\ last.err = "none"
  /\ Len(last.labels) = 2
  /\ Len(last.normal_calls[1]) >= 1
  /\ Len(last.normal_calls[2]) >= 1
====
